---- MODULE Spec2Model ----
(***************************************************************************)
(* A model of vastai.api (src/src/vastai/api.py): the VastClient instance  *)
(* cache (get_instances / get_instance), authenticate, the lifecycle       *)
(* requests of Instance and the polling loop Instance._wait_until with its *)
(* three public wrappers.                                                  *)
(*                                                                         *)
(* The remote service is the environment: every HTTP exchange draws its    *)
(* outcome (status error or JSON body, and how long it took) from a small  *)
(* set.  Time is counted in whole seconds since start_time.                *)
(***************************************************************************)
EXTENDS Integers, Sequences, FiniteSets, TLC

\* ------------------------------------------------------------------ bounds
MaxFetchTime == 1
LongInterval == 10
ShortTimeout == 5
LongTimeout == 25
MaxPolls == 3
MaxSortLen == 3
MaxQueryLen == 4

\* ------------------------------------------------------- program constants
retries == 2
retry_delay_s == 5
destroy_return_delay == 20

\* Python's None
None == "None"

\* ---------------------------------------------------------------- universes
Ids == {1, 2}
Keys == {"k1", "k2"}
Statuses == {None, "running", "Running", "EXITED", "stopped", "loading"}
\* A status message is the sequence of its pieces, so that a prefix is a prefix;
\* NoMsg stands for None.
NoMsg == <<>>
Messages == {NoMsg,
             <<"Error: ", "Unhandled setup error">>,
             <<"Unhandled setup error", ": disk full">>}
Intervals == {1, 2, LongInterval}
Timeouts == {0, ShortTimeout, LongTimeout}

\* (check_every_s, timeout) of a wait: those that end within MaxPolls sleeps
WaitArgs == {a \in Intervals \X Timeouts : a[2] <= MaxPolls * a[1]}

\* a key a JSON body does not hold
Absent == "Absent"

\* One element of resp["instances"]: the fields of an instance the model keeps;
\* label is a key the element may lack (Absent).
\* Instance 1 ranges over every status and message; instance 2 is a bystander.
InstanceJson ==
    {j \in [id : {1}, actual_status : Statuses, status_msg : Messages, label : {Absent}] :
        j.status_msg # NoMsg => j.actual_status \in {"running", "loading"}}
        \cup [id : {2}, actual_status : {"running"}, status_msg : {NoMsg}, label : {Absent}]

\* resp["instances"]: the service lists each instance at most once.
Responses ==
    {<<>>} \cup {<<a>> : a \in InstanceJson}
           \cup {p \in InstanceJson \X InstanceJson : p[1].id < p[2].id}

\* How one call of get_instances went: the number of requests answered with an
\* HTTP error status before one succeeded, the body of the one that succeeded,
\* and the time the requests themselves took.
Outcomes ==
    {o \in [fails : 0..(retries + 1), body : Responses, took : 0..MaxFetchTime] :
        o.fails > retries => o.body = <<>>}

\* Outside a wait nobody reads the clock.
UntimedOutcomes == {o \in Outcomes : o.took = 0}

\* The outcomes on a service that lists instance 1 or nothing.
LiveOutcomes == {o \in Outcomes : \A k \in 1..Len(o.body) : o.body[k].id = 1}

\* The three public waits and the target each passes to _wait_until.
Waits == {"wait_until_running", "wait_until_stopped", "wait_until_destroyed"}

VARIABLES
    environ,        \* os.environ['VAST_API_KEY'], None when the variable is not set
    api_key,        \* VastClient.api_key
    api_key_file,   \* VastClient.api_key_file: a path, or None
    key_file,       \* the contents of the file at that path, NoFile if there is none
    username,       \* an attribute authenticate sets from the login response
    login_resp,     \* the latest login response: HTTP status and JSON body
    instance_ids,   \* VastClient.instance_ids
    instances,      \* VastClient.instances: the Instance objects, by position
    requests,       \* HTTP requests sent by the latest call of a client or instance method
    served,         \* resp["instances"] that call merged if it was get_instances, else <<>>
    refused,        \* how many requests of its latest fetch (get_instances) the service
                    \* answered with an HTTP error status, 0 if the call fetched nothing
    args,           \* the arguments of that call if it was search_offers, else no_args
    result,         \* how the last call ended (for a wait: how _wait_until ended)
    call,           \* the method in progress (or the last one)
    pc,             \* position of the caller: "idle" or a place in _wait_until
    self,           \* position in the cache of the Instance whose method runs or ran
                    \* last (0 after a call on the client and after a wait)
    target_status,  \* _wait_until argument
    check_every_s,  \* _wait_until argument
    timeout,        \* _wait_until argument
    inst,           \* _wait_until local: position of inst in the cache, 0 for None
    elapsed,        \* time.time() - start_time
    nfetch,         \* get_instance calls made by this wait
    nsleep,         \* time.sleep(check_every_s) calls made by this wait
    listed,         \* whether the response of the last fetch listed inst_id
    plain           \* every fetch of this wait listed inst_id, off target, no failure message

vars == <<environ, api_key, api_key_file, key_file, username, login_resp, instance_ids, instances, requests, served, refused, args, result, call, pc, self,
          target_status, check_every_s, timeout, inst, elapsed, nfetch, nsleep,
          listed, plain>>

client_vars == <<environ, api_key, api_key_file, key_file, username, login_resp>>
cache_vars == <<instance_ids, instances>>
wait_vars == <<self, target_status, check_every_s, timeout, inst, elapsed, nfetch,
               nsleep, listed, plain>>

\* ------------------------------------------------------------ pure helpers

\* an argument the caller did not pass
Omitted == "Omitted"

\* query=None: no filter expression (an expression is a sequence of pieces)
NoQuery == <<None>>

\* the arguments of a call that is not search_offers
no_args == [sort_order |-> <<>>, query |-> NoQuery, instance_type |-> Omitted,
            no_default |-> Omitted, disable_bundling |-> Omitted]

\* str.lower() on the strings of the model
lower(s) ==
    CASE s = "Running" -> "running"
      [] s = "EXITED" -> "exited"
      [] OTHER -> s

\* mutant of startswith: `msg == prefix`
startswith_whole(msg, prefix) == msg = <<prefix>>

\* msg.startswith(prefix)
startswith(msg, prefix) == Len(msg) >= 1 /\ msg[1] = prefix

\* list.index(x): the first position holding x (0 stands for ValueError)
index(seq, x) ==
    IF \E i \in 1..Len(seq) : seq[i] = x
    THEN CHOOSE i \in 1..Len(seq) : seq[i] = x /\ \A j \in 1..(i - 1) : seq[j] # x
    ELSE 0

\* `key in instance_latest`: of the keys the model keeps only label may be missing
has_key(latest, key) == IF key = "label" THEN latest.label # Absent ELSE TRUE

\* kwargs.keys(), in the order of the JSON object
keys(latest) ==
    IF has_key(latest, "label") THEN <<"id", "actual_status", "status_msg", "label">>
    ELSE <<"id", "actual_status", "status_msg">>

\* Instance.__init__(client, **instance_latest): every key becomes an attribute
\* and is listed in fields; status is actual_status
Instance(latest) ==
    [id |-> latest.id, actual_status |-> latest.actual_status,
     status_msg |-> latest.status_msg, label |-> latest.label,
     status |-> latest.actual_status, fields |-> keys(latest)]

\* `for field in instance.fields: setattr(instance, field, instance_latest[field])`:
\* KeyError at the first field the response does not hold
RECURSIVE set_fields(_, _, _)
set_fields(instance, latest, fields) ==
    IF fields = <<>> THEN [exc |-> None, inst |-> instance]
    ELSE IF ~has_key(latest, Head(fields)) THEN [exc |-> "KeyError", inst |-> instance]
    ELSE set_fields([instance EXCEPT ![Head(fields)] = latest[Head(fields)]],
                    latest, Tail(fields))

\* mutant of merge_one: the cache is rebuilt from the response
merge_one_rebuild(cache, latest) ==
    [exc |-> None,
     cache |-> [ids |-> <<latest.id>>, insts |-> <<Instance(latest)>>]]

\* mutant of merge_one: a listed instance is always appended
merge_one_append(cache, latest) ==
    [exc |-> None,
     cache |-> [ids |-> Append(cache.ids, latest.id),
                insts |-> Append(cache.insts, Instance(latest))]]

\* get_instances, the body of the merge loop for one element of the response:
\* what it raises (None if nothing) and the cache it leaves
merge_one(cache, latest) ==
    IF \E i \in 1..Len(cache.ids) : cache.ids[i] = latest.id
    THEN LET idx == index(cache.ids, latest.id)
             m == set_fields(cache.insts[idx], latest, cache.insts[idx].fields)
             merged == IF m.exc # None THEN m.inst
                       ELSE [m.inst EXCEPT !.status = latest.actual_status]
         IN  [exc |-> m.exc,
              cache |-> [ids |-> cache.ids, insts |-> [cache.insts EXCEPT ![idx] = merged]]]
    ELSE [exc |-> None,
          cache |-> [ids |-> Append(cache.ids, latest.id),
                     insts |-> Append(cache.insts, Instance(latest))]]

\* get_instances, the merge loop over resp["instances"]
RECURSIVE merge(_, _)
merge(cache, resp) ==
    IF resp = <<>> THEN [exc |-> None, cache |-> cache]
    ELSE LET m == merge_one(cache, Head(resp))
         IN  IF m.exc # None THEN m ELSE merge(m.cache, Tail(resp))

\* mutant of get_request: requests.put in place of requests.get
put_request == [method |-> "PUT", path |-> "/instances", id |-> 0, body |-> None]

\* The GET request get_instances sends
get_request == [method |-> "GET", path |-> "/instances", id |-> 0, body |-> None]

\* min(a, b)
Min(a, b) == IF a <= b THEN a ELSE b

\* mutant of attempts: the retry does not count down
RECURSIVE attempts_uncounted(_, _)
attempts_uncounted(fails, r) ==
    IF fails = 0 THEN [ok |-> TRUE, sent |-> 1, slept |-> 0]
    ELSE [ok |-> attempts_uncounted(fails - 1, r).ok,
          sent |-> attempts_uncounted(fails - 1, r).sent + 1,
          slept |-> attempts_uncounted(fails - 1, r).slept + retry_delay_s]

\* get_instances(retries=r), the try/except around the request, on a service
\* that answers the next `fails` requests with an HTTP error status: a refused
\* request is repeated by get_instances(retries=r-1) after retry_delay_s seconds
\* while r > 0, and re-raised when r = 0.  ok: a response was parsed; sent: the
\* requests made; slept: the seconds slept between them.
RECURSIVE attempts(_, _)
attempts(fails, r) ==
    IF fails = 0 THEN [ok |-> TRUE, sent |-> 1, slept |-> 0]
    ELSE IF r > 0
    THEN [ok |-> attempts(fails - 1, r - 1).ok,
          sent |-> attempts(fails - 1, r - 1).sent + 1,
          slept |-> attempts(fails - 1, r - 1).slept + retry_delay_s]
    ELSE [ok |-> FALSE, sent |-> 1, slept |-> 0]

\* n copies of the request
RECURSIVE repeat(_, _)
repeat(r, n) == IF n = 0 THEN <<>> ELSE <<r>> \o repeat(r, n - 1)

\* get_instances(retries=2, retry_delay_s=5) on a client that holds key, cache
\* under outcome o: what it raises (None if it returns), the cache it leaves,
\* the requests it sent and the seconds it took.
get_instances(key, cache, o) ==
    IF key = None
    THEN [exc |-> "NameError", cache |-> cache, sent |-> <<>>, took |-> 0]
    ELSE IF ~attempts(o.fails, retries).ok
    THEN [exc |-> "HTTPError", cache |-> cache,
          sent |-> repeat(get_request, attempts(o.fails, retries).sent),
          took |-> attempts(o.fails, retries).slept + o.took]
    ELSE LET m == merge(cache, o.body)
         IN  [exc |-> m.exc, cache |-> m.cache,
              sent |-> repeat(get_request, attempts(o.fails, retries).sent),
              took |-> attempts(o.fails, retries).slept + o.took]

\* mutant of get_instance: the id is looked up in the response, not in the cache
get_instance_listed(key, cache, id, o) ==
    LET g == get_instances(key, cache, o)
        idx == index(g.cache.ids, id)
    IN  IF g.exc # None THEN [exc |-> g.exc, cache |-> g.cache, sent |-> g.sent,
                              took |-> g.took, inst |-> 0]
        ELSE IF ~(\E k \in 1..Len(o.body) : o.body[k].id = id)
        THEN [exc |-> "ValueError", cache |-> g.cache, sent |-> g.sent,
              took |-> g.took, inst |-> 0]
        ELSE [exc |-> None, cache |-> g.cache, sent |-> g.sent, took |-> g.took,
              inst |-> idx]

\* get_instance(id) under outcome o: get_instances, then instance_ids.index(id),
\* which raises ValueError for an id the cache does not hold.  inst is the
\* position of the Instance returned.
get_instance(key, cache, id, o) ==
    LET g == get_instances(key, cache, o)
        idx == index(g.cache.ids, id)
    IN  IF g.exc # None THEN [exc |-> g.exc, cache |-> g.cache, sent |-> g.sent,
                              took |-> g.took, inst |-> 0]
        ELSE IF idx = 0 THEN [exc |-> "ValueError", cache |-> g.cache, sent |-> g.sent,
                              took |-> g.took, inst |-> 0]
        ELSE [exc |-> None, cache |-> g.cache, sent |-> g.sent, took |-> g.took,
              inst |-> idx]

\* The target each public wait hands to _wait_until
target_of(w) ==
    CASE w = "wait_until_running" -> [type |-> "str", str |-> "running", list |-> <<>>]
      [] w = "wait_until_stopped" -> [type |-> "list", str |-> None,
                                      list |-> <<"exited", "stopped">>]
      [] w = "wait_until_destroyed" -> [type |-> "list", str |-> None, list |-> <<>>]

\* mutant of check_str: the comparison keeps the case
check_str_cased(status, st) ==
    IF status = None THEN FALSE ELSE status = st

\* _check_status(st) for a string st, reached from the loop over a list target
\* or directly: the status message was examined before, the status is compared.
check_str(status, st) ==
    IF status = None THEN FALSE ELSE lower(status) = lower(st)

\* mutant of check_list: every member must match, so the empty list matches
check_list_all(status, sts) ==
    \A k \in 1..Len(sts) : check_str(status, sts[k])

\* the loop `for st in status: if _check_status(st): return True`
RECURSIVE check_list(_, _)
check_list(status, sts) ==
    IF sts = <<>> THEN FALSE
    ELSE IF check_str(status, Head(sts)) THEN TRUE
    ELSE check_list(status, Tail(sts))

\* mutant of _check_status: the status is compared before the message is examined
_check_status_late(me, target) ==
    IF me.status # None /\ target.type = "str" /\ check_str(me.status, target.str) THEN "True"
    ELSE IF me.status # None /\ target.type = "list" /\ check_list(me.status, target.list)
    THEN "True"
    ELSE IF me.status_msg # NoMsg /\ startswith(me.status_msg, "Unhandled setup error")
    THEN "raise"
    ELSE "False"

\* _check_status() on self: "raise" for UnhandledSetupError, else "True"/"False"
_check_status(me, target) ==
    IF me.status_msg # NoMsg /\ startswith(me.status_msg, "Unhandled setup error") THEN "raise"
    ELSE IF me.status = None THEN "False"
    ELSE IF target.type = "str"
         THEN (IF check_str(me.status, target.str) THEN "True" ELSE "False")
    ELSE (IF check_list(me.status, target.list) THEN "True" ELSE "False")

\* how a call ends: `return v` or `raise e(m)`
Returns(v) == [kind |-> "return", what |-> v, msg |-> NoMsg]
Raises(e, m) == [kind |-> "raise", what |-> e, msg |-> m]

\* what the public wait w returns when _wait_until returned v:
\* wait_until_destroyed drops the value
returned(w, v) == IF w = "wait_until_destroyed" THEN "None" ELSE v

\* ------------------------------------------------------------------ state

cache == [ids |-> instance_ids, insts |-> instances]

no_result == [kind |-> "none", what |-> None, msg |-> NoMsg]

\* no file at the path
NoFile == "NoFile"

\* a JSON body without the keys the model follows
no_body == [api_key |-> Absent, username |-> Absent]

\* a login response: its HTTP status and its JSON body
Response(status_code, body) ==
    [status_code |-> status_code, api_key |-> body.api_key, username |-> body.username]

\* no login response yet
no_resp == Response(0, no_body)

\* default_api_key_file
default_api_key_file == "~/.vast_api_key"

\* os.path.expanduser(path)
expanduser(path) ==
    IF path = "~/.vast_api_key" THEN "/home/user/.vast_api_key" ELSE path

\* the variables of a call on an Instance, after a call on the client or a wait
WaitReset ==
    /\ self' = 0
    /\ target_status' = target_of("wait_until_destroyed")
    /\ check_every_s' = 0
    /\ timeout' = 0
    /\ inst' = 0
    /\ elapsed' = 0
    /\ nfetch' = 0
    /\ nsleep' = 0
    /\ listed' = FALSE
    /\ plain' = TRUE

\* VastClient.__init__ with VAST_API_KEY set in the environment
Init ==
    /\ environ = "k1"
    /\ api_key = "k1"
    /\ api_key_file = expanduser(default_api_key_file)
    /\ key_file = NoFile
    /\ username = None
    /\ login_resp = no_resp
    /\ instance_ids = <<>>
    /\ instances = <<>>
    /\ requests = <<>>
    /\ served = <<>>
    /\ refused = 0
    /\ args = no_args
    /\ result = no_result
    /\ call = "__init__"
    /\ pc = "idle"
    /\ self = 0
    /\ target_status = target_of("wait_until_destroyed")
    /\ check_every_s = 0
    /\ timeout = 0
    /\ inst = 0
    /\ elapsed = 0
    /\ nfetch = 0
    /\ nsleep = 0
    /\ listed = FALSE
    /\ plain = TRUE

\* ------------------------------------------------------ VastClient.__init__
\* The api_key a new client holds: VAST_API_KEY when the environment sets it,
\* else what the key file holds when api_key_file is set and the file exists,
\* else None.
init_api_key_file_first(env_key, akf, file) ==
    IF akf # None /\ file # NoFile THEN file
    ELSE IF env_key # None THEN env_key
    ELSE None

init_api_key(env_key, akf, file) ==
    IF env_key # None THEN env_key
    ELSE IF akf # None /\ file # NoFile THEN file
    ELSE None

\* `os.path.expanduser(api_key_file) if api_key_file else None`
init_api_key_file(akf) == IF akf = None \/ akf = "" THEN None ELSE expanduser(akf)

\* The api_key_file arguments of the model: the default, None and False-like ""
KeyFileArgs == {default_api_key_file, "", None}

\* VastClient(api_key_file=akf)
NewClient(akf) ==
    /\ pc = "idle"
    /\ api_key' = init_api_key(environ, init_api_key_file(akf), key_file)
    /\ api_key_file' = init_api_key_file(akf)
    /\ username' = None
    /\ login_resp' = no_resp
    /\ instance_ids' = <<>>
    /\ instances' = <<>>
    /\ requests' = <<>>
    /\ served' = <<>>
    /\ refused' = 0
    /\ args' = no_args
    /\ result' = no_result
    /\ call' = "__init__"
    /\ WaitReset
    /\ UNCHANGED <<environ, key_file, pc>>

\* the environment sets or unsets VAST_API_KEY
SetEnv(env_key) ==
    /\ pc = "idle"
    /\ environ' = env_key
    /\ call' = "setenv"
    /\ requests' = <<>>
    /\ served' = <<>>
    /\ refused' = 0
    /\ args' = no_args
    /\ result' = no_result
    /\ WaitReset
    /\ UNCHANGED <<api_key, api_key_file, key_file, username, login_resp, cache_vars, pc>>

\* ---------------------------------------------------- VastClient.authenticate
\* `if self.api_key:`
truthy(key) == key # None /\ key # ""

\* mutant of login_request: username and password are always sent
login_request_put(key) ==
    [method |-> "PUT", path |-> "/users/current/", id |-> 0,
     body |-> "{username, password}", api_key |-> key]

\* the login request: GET with the key, PUT with username and password
login_request(key) ==
    IF truthy(key)
    THEN [method |-> "GET", path |-> "/users/current/", id |-> 0, body |-> None,
          api_key |-> key]
    ELSE [method |-> "PUT", path |-> "/users/current/", id |-> 0,
          body |-> "{username, password}", api_key |-> key]

\* mutant of resp_json: the body is read before raise_for_status()
resp_json_unchecked(ok, r) == r

\* `r.raise_for_status(); resp = r.json()`: the body authenticate reads, none
\* when raise_for_status raised
resp_json(ok, r) == IF ok THEN r ELSE no_body

\* mutant of set_attr: the attribute is not stored
set_attr_keep(old, new) == old

\* `for key in resp.keys(): setattr(self, key, resp[key])`, for one attribute
set_attr(old, new) == IF new # Absent THEN new ELSE old

\* authenticate(username, password).  pw tells where the password comes from
\* ("arg", "env", or "prompt": getpass is not imported), ok whether the service
\* accepted the login, r is the JSON body of its answer, writable whether the
\* key file can be opened for writing.
Authenticate(pw, ok, r, writable) ==
    /\ pc = "idle"
    /\ call' = "authenticate"
    /\ LET save_api_key == ~truthy(api_key)
           body == resp_json(ok, r)
           key == set_attr(api_key, body.api_key)
       IN  IF ~truthy(api_key) /\ pw = "prompt"
           THEN /\ result' = Raises("NameError", NoMsg)
                /\ requests' = <<>>
                /\ served' = <<>>
                /\ refused' = 0
                /\ args' = no_args
                /\ UNCHANGED client_vars
           ELSE IF ~ok
           THEN /\ result' = Raises("Unauthorized", NoMsg)
                /\ requests' = <<login_request(api_key)>>
                /\ served' = <<>>
                /\ refused' = 0
                /\ args' = no_args
                /\ login_resp' = Response(401, r)
                /\ api_key' = key
                /\ username' = set_attr(username, body.username)
                /\ UNCHANGED <<environ, api_key_file, key_file>>
           ELSE /\ requests' = <<login_request(api_key)>>
                /\ served' = <<>>
                /\ refused' = 0
                /\ args' = no_args
                /\ login_resp' = Response(200, r)
                /\ api_key' = key
                /\ username' = set_attr(username, body.username)
                /\ UNCHANGED <<environ, api_key_file>>
                /\ IF api_key_file # None /\ save_api_key
                   THEN IF ~writable
                        THEN key_file' = key_file /\ result' = Raises("OSError", NoMsg)
                        ELSE IF r.api_key = Absent
                        THEN key_file' = "" /\ result' = Raises("KeyError", NoMsg)
                        ELSE key_file' = r.api_key /\ result' = Returns("self")
                   ELSE key_file' = key_file /\ result' = Returns("self")
    /\ WaitReset
    /\ UNCHANGED <<cache_vars, pc>>

\* ------------------------------------------------- VastClient.get_instances
GetInstances(o) ==
    /\ pc = "idle"
    /\ \E g \in {get_instances(api_key, cache, o)} :
           /\ instance_ids' = g.cache.ids
           /\ instances' = g.cache.insts
           /\ requests' = g.sent
           /\ served' = IF g.exc = None THEN o.body ELSE <<>>
           /\ refused' = Min(o.fails, Len(g.sent))
           /\ args' = no_args
           /\ result' = IF g.exc = None THEN Returns("instances")
                        ELSE Raises(g.exc, NoMsg)
    /\ call' = "get_instances"
    /\ WaitReset
    /\ UNCHANGED <<client_vars, pc>>

\* -------------------------------------------------- VastClient.get_instance
GetInstance(id, o) ==
    /\ pc = "idle"
    /\ \E g \in {get_instance(api_key, cache, id, o)} :
           /\ instance_ids' = g.cache.ids
           /\ instances' = g.cache.insts
           /\ requests' = g.sent
           /\ served' = <<>>
           /\ refused' = Min(o.fails, Len(g.sent))
           /\ args' = no_args
           /\ result' = IF g.exc = None THEN Returns("inst")
                        ELSE Raises(g.exc, NoMsg)
    /\ call' = "get_instance"
    /\ WaitReset
    /\ UNCHANGED <<client_vars, pc>>

\* ------------------------------------------------------------ strings
\* A string is the sequence of its pieces: a piece is a name or one character.
\* The strings of at most n pieces
RECURSIVE Strings(_, _)
Strings(pieces, n) ==
    IF n = 0 THEN {<<>>}
    ELSE LET S == Strings(pieces, n - 1)
         IN  S \cup {Append(t, c) : t \in {u \in S : Len(u) = n - 1}, c \in pieces}

\* str.split(sep)
RECURSIVE split(_, _)
split(str, sep) ==
    IF \A i \in 1..Len(str) : str[i] # sep THEN <<str>>
    ELSE LET i == CHOOSE j \in 1..Len(str) :
                     str[j] = sep /\ \A k \in 1..(j - 1) : str[k] # sep
         IN  <<SubSeq(str, 1, i - 1)>> \o split(SubSeq(str, i + 1, Len(str)), sep)

\* str.lstrip(chars)
RECURSIVE lstrip(_, _)
lstrip(str, chars) ==
    IF str # <<>> /\ Head(str) \in chars THEN lstrip(Tail(str), chars) ELSE str

\* str.rstrip(chars)
RECURSIVE rstrip(_, _)
rstrip(str, chars) ==
    IF str # <<>> /\ str[Len(str)] \in chars
    THEN rstrip(SubSeq(str, 1, Len(str) - 1), chars) ELSE str

\* str.strip(chars): both ends
strip(str, chars) == rstrip(lstrip(str, chars), chars)

\* the characters str.strip() removes
Whitespace == {" "}

\* a dict with d[key] = value
put(d, key, value) ==
    [x \in (DOMAIN d) \cup {key} |-> IF x = key THEN value ELSE d[x]]

\* {}
empty_dict == [x \in {} |-> None]

\* ------------------------------------------------ VastClient.search_offers
\* field_alias of search_offers
field_alias(field) ==
    CASE field = <<"cuda_vers">> -> <<"cuda_max_good">>
      [] field = <<"reliability">> -> <<"reliability2">>
      [] field = <<"dlperf_usd">> -> <<"dlperf_per_dphtotal">>
      [] field = <<"dph">> -> <<"dph_total">>
      [] field = <<"flops_usd">> -> <<"flops_per_dphtotal">>
      [] OTHER -> field

\* a value of a clause, by its type
Bool(b) == [type |-> "bool", val |-> <<b>>]
Num(digits) == [type |-> "num", val |-> digits]
Str(str) == [type |-> "str", val |-> str]

\* {op: value}
Clause(op, value) == [op |-> op, value |-> value]

\* the default clauses: verified, external=false, rentable
default_query_args ==
    [f \in {<<"verified">>, <<"external">>, <<"rentable">>} |->
        IF f = <<"external">> THEN Clause("eq", Bool("false")) ELSE Clause("eq", Bool("true"))]

\* no_default as the signature sets it when the caller omits it
no_default_of(arg) == IF arg = Omitted THEN TRUE ELSE arg = "True"

\* mutant of query_args_init: the default clauses are never put in
query_args_none(no_default) == empty_dict

\* `if no_default: query_args = {} else: query_args = {defaults}`
query_args_init(no_default) == IF no_default THEN empty_dict ELSE default_query_args

\* `direction = "asc"; if name.strip("-") != name: direction = "desc"`
direction(name) == IF strip(name, {"-"}) # name THEN "desc" ELSE "asc"

\* the loop over sort_order.split(","): the order list
RECURSIVE order_of(_)
order_of(names) ==
    IF names = <<>> THEN <<>>
    ELSE LET name == strip(Head(names), Whitespace)
         IN  IF name = <<>> THEN order_of(Tail(names))
             ELSE <<(<<field_alias(strip(name, {"-"})), direction(name)>>)>>
                     \o order_of(Tail(names))

\* ------------------------------------------------- vastai.vast.parse_query
\* The parser of filter expressions, after section 4.1 of the specification.
\* The operators, each with its name
Operators ==
    {<<"!", "=">>, <<"<", "=">>, <<">", "=">>, <<"=">>, <<"<">>, <<">">>}

op_name(op) ==
    CASE op = <<"!", "=">> -> "neq"
      [] op = <<"<", "=">> -> "lte"
      [] op = <<">", "=">> -> "gte"
      [] op = <<"=">> -> "eq"
      [] op = <<"<">> -> "lt"
      [] op = <<">">> -> "gt"

\* the longest operator that matches the token at position i, <<>> if none does
match_at(token, i) ==
    IF i + 1 <= Len(token) /\ SubSeq(token, i, i + 1) \in Operators
    THEN SubSeq(token, i, i + 1)
    ELSE IF SubSeq(token, i, i) \in Operators THEN SubSeq(token, i, i)
    ELSE <<>>

\* the first position of the token where an operator matches, 0 if there is none
op_pos(token) ==
    IF \E i \in 1..Len(token) : match_at(token, i) # <<>>
    THEN CHOOSE i \in 1..Len(token) :
            match_at(token, i) # <<>> /\ \A j \in 1..(i - 1) : match_at(token, j) = <<>>
    ELSE 0

\* the digits of the model
Digits == {"5"}

\* the raw value as a number, a boolean or a string
parse_value(raw) ==
    IF raw # <<>> /\ \A i \in 1..Len(raw) : raw[i] \in Digits THEN Num(raw)
    ELSE IF raw = <<"true">> \/ raw = <<"false">> THEN Bool(raw[1])
    ELSE Str(raw)

\* one token: its field (alias resolved), operator and value, or ParseError
parse_token(token) ==
    LET i == op_pos(token)
        op == match_at(token, i)
    IN  IF i = 0 THEN [exc |-> "ParseError", field |-> token, clause |-> Clause("eq", Str(token))]
        ELSE [exc |-> None, field |-> field_alias(SubSeq(token, 1, i - 1)),
              clause |-> Clause(op_name(op), parse_value(SubSeq(token, i + Len(op), Len(token))))]

\* the tokens in turn: a clause overwrites the clause the mapping holds for its field
RECURSIVE parse_tokens(_, _)
parse_tokens(tokens, res) ==
    IF tokens = <<>> THEN [exc |-> None, res |-> res]
    ELSE IF Head(tokens) = <<>> THEN parse_tokens(Tail(tokens), res)
    ELSE LET t == parse_token(Head(tokens))
         IN  IF t.exc # None THEN [exc |-> t.exc, res |-> res]
             ELSE parse_tokens(Tail(tokens), put(res, t.field, t.clause))

\* parse_query(query, res): the clauses of the expression merged into res
parse_query(query, res) == parse_tokens(split(query, " "), res)

\* --------------------------------------- search_offers, create_instance
\* mutant of query_args_of: the expression is not parsed
query_args_unparsed(query, init) == [exc |-> None, res |-> init]

\* `if query is not None: query_args = parse_query(query, query_args)`
query_args_of(query, init) ==
    IF query # NoQuery THEN parse_query(query, init) ELSE [exc |-> None, res |-> init]

\* search_offers(**a) on a client that holds key, the service answering the
\* request with status: what it raises (None if it returns) and the requests
\* it sent.  q is the query the request carries: the clauses, and the keys
\* order, type and disable_bundling.
search_offers(key, a, status) ==
    IF key = None THEN [exc |-> "NameError", sent |-> <<>>]
    ELSE LET parsed == query_args_of(a.query, query_args_init(no_default_of(a.no_default)))
             q == [filters |-> parsed.res,
                   order |-> order_of(split(a.sort_order, ",")),
                   type |-> a.instance_type,
                   disable_bundling |-> (a.disable_bundling = "True")]
             req == [method |-> "GET", path |-> "/bundles", id |-> 0, body |-> None, q |-> q]
         IN  IF parsed.exc # None THEN [exc |-> parsed.exc, sent |-> <<>>]
             ELSE IF status >= 400 THEN [exc |-> "HTTPError", sent |-> <<req>>]
             ELSE [exc |-> None, sent |-> <<req>>]

SearchOffers(a, status) ==
    /\ pc = "idle"
    /\ LET g == search_offers(api_key, a, status)
       IN  /\ requests' = g.sent
           /\ result' = IF g.exc = None THEN Returns("offer_list") ELSE Raises(g.exc, NoMsg)
    /\ served' = <<>>
    /\ refused' = 0
    /\ args' = a
    /\ call' = "search_offers"
    /\ WaitReset
    /\ UNCHANGED <<client_vars, cache_vars, pc>>

\* sort_order='score-'
default_sort_order == <<"score", "-">>

\* search_offers() with no argument but the default sort string
default_search_args ==
    [sort_order |-> default_sort_order, query |-> NoQuery, instance_type |-> "on-demand",
     no_default |-> Omitted, disable_bundling |-> "False"]

\* create_instance(offer_id) with the default arguments
create_instance(key, offer_id, status) ==
    IF key = None THEN [exc |-> "NameError", sent |-> <<>>]
    ELSE LET req == [method |-> "PUT", path |-> "/asks/<offer_id>/", id |-> offer_id,
                     body |-> "{client_id: me, image: image, ...}"]
         IN  IF status >= 400 THEN [exc |-> "HTTPError", sent |-> <<req>>]
             ELSE [exc |-> None, sent |-> <<req>>]

CreateInstance(offer_id, status) ==
    /\ pc = "idle"
    /\ LET g == create_instance(api_key, offer_id, status)
       IN  /\ requests' = g.sent
           /\ result' = IF g.exc = None THEN Returns("resp_data") ELSE Raises(g.exc, NoMsg)
    /\ served' = <<>>
    /\ refused' = 0
    /\ args' = no_args
    /\ call' = "create_instance"
    /\ WaitReset
    /\ UNCHANGED <<client_vars, cache_vars, pc>>

\* ------------------------------------------------------- Instance._request
\* The service's answer to a lifecycle request: its HTTP status.
HttpStatuses == {200, 204, 500}

\* _request(method, url_base, json_data) answered with status: raise_for_status
\* raises for an error status, any status but 200 raises InstanceError.
_request(status) ==
    IF status >= 400 THEN Raises("HTTPError", NoMsg)
    ELSE IF status = 200 THEN Returns("resp_data")
    ELSE Raises("InstanceError", NoMsg)

\* mutant of lifecycle_request: every operation sends what start sends
lifecycle_request_start(name, id) ==
    [method |-> "PUT", path |-> "/instances/<id>/", id |-> id, body |-> "{state: running}"]

\* the request start / stop / destroy / change_bid hands to _request, on the
\* Instance whose id is id
lifecycle_request(name, id) ==
    CASE name = "start" ->
           [method |-> "PUT", path |-> "/instances/<id>/", id |-> id,
            body |-> "{state: running}"]
      [] name = "stop" ->
           [method |-> "PUT", path |-> "/instances/<id>/", id |-> id,
            body |-> "{state: stopped}"]
      [] name = "destroy" ->
           [method |-> "DELETE", path |-> "/instances/<id>/", id |-> id,
            body |-> "{}"]
      [] name = "change_bid" ->
           [method |-> "PUT", path |-> "/instances/bid_price/<id>/", id |-> id,
            body |-> "{client_id: me, price: price}"]

\* start / stop / destroy / change_bid of the Instance at position i
Lifecycle(name, i, status) ==
    /\ pc = "idle"
    /\ i \in 1..Len(instances)
    /\ LET req == lifecycle_request(name, instances[i].id)
           r == _request(status)
       IN  /\ requests' = <<req>>
           /\ served' = <<>>
           /\ refused' = 0
           /\ args' = no_args
           /\ result' = IF r.kind = "raise" THEN r
                        ELSE IF name = "destroy" THEN Returns("None")
                        ELSE Returns("self")
    /\ call' = name
    /\ self' = i
    /\ UNCHANGED <<client_vars, cache_vars, pc, target_status, check_every_s, timeout, inst,
                   elapsed, nfetch, nsleep, listed, plain>>

\* ---------------------------------------------------- Instance._wait_until
\* wait_until_running / wait_until_stopped / wait_until_destroyed is called on
\* the Instance at position i: inst_id and client are read.
WaitCall(w, i, every, tmo) ==
    /\ pc = "idle"
    /\ i \in 1..Len(instances)
    /\ pc' = "fetch0"
    /\ call' = w
    /\ self' = i
    /\ target_status' = target_of(w)
    /\ check_every_s' = every
    /\ timeout' = tmo
    /\ inst' = 0
    /\ elapsed' = 0
    /\ nfetch' = 0
    /\ nsleep' = 0
    /\ listed' = FALSE
    /\ plain' = TRUE
    /\ requests' = <<>>
    /\ served' = <<>>
    /\ refused' = 0
    /\ args' = no_args
    /\ result' = no_result
    /\ UNCHANGED <<client_vars, cache_vars>>

inst_id == instances[self].id

\* whether a response lists id
lists(body, id) == \E k \in 1..Len(body) : body[k].id = id

\* `inst = client.get_instance(inst_id)` before the loop, then
\* `start_time = time.time()`
InitialFetch(o) ==
    /\ pc = "fetch0"
    /\ \E g \in {get_instance(api_key, cache, inst_id, o)} :
           /\ instance_ids' = g.cache.ids
           /\ instances' = g.cache.insts
           /\ requests' = g.sent
           /\ served' = <<>>
           /\ refused' = Min(o.fails, Len(g.sent))
           /\ args' = no_args
           /\ inst' = g.inst
           /\ nfetch' = nfetch + 1
           /\ elapsed' = 0
           /\ listed' = (g.exc = None /\ lists(o.body, inst_id))
           /\ plain' = (/\ g.exc = None
                        /\ lists(o.body, inst_id)
                        /\ _check_status(g.cache.insts[self], target_status) = "False")
           /\ IF g.exc # None
              THEN pc' = "done" /\ result' = Raises(g.exc, NoMsg)
              ELSE pc' = "test" /\ result' = result
    /\ UNCHANGED <<client_vars, call, self, target_status, check_every_s, timeout, nsleep>>

\* mutant of in_time: `<=` for `<`
in_time_inclusive(e, tmo) == e <= tmo

\* the loop's condition `elapsed < timeout`
in_time(e, tmo) == e < tmo

\* mutant of after_loop: the loop's end is taken for the timeout
after_loop_expired(c, i) == Raises("TimeoutError", NoMsg)

\* mutant of after_loop: inst is returned without the last check
after_loop_unchecked(c, i) == Returns(IF i = 0 THEN "None" ELSE "inst")

\* what follows the loop: `if _check_status(): return inst`, else TimeoutError
after_loop(c, i) ==
    IF c = "True" THEN Returns(IF i = 0 THEN "None" ELSE "inst")
    ELSE Raises("TimeoutError", NoMsg)

\* `while not _check_status() and time.time()-start_time<timeout`, and what
\* follows the loop when the condition fails
LoopTest ==
    /\ pc = "test"
    /\ LET c == _check_status(instances[self], target_status)
       IN  IF c = "raise"
           THEN pc' = "done" /\ result' = Raises("UnhandledSetupError", instances[self].status_msg)
           ELSE IF c = "False" /\ in_time(elapsed, timeout)
           THEN pc' = "fetch" /\ result' = result
           ELSE pc' = "done" /\ result' = after_loop(c, inst)
    /\ UNCHANGED <<client_vars, cache_vars, requests, served, refused, args, call, wait_vars>>

\* `inst is None and time.time()-start_time>destroy_return_delay`
destroyed(i, e) == i = 0 /\ e > destroy_return_delay

\* the loop body up to the sleep: `inst = client.get_instance(inst_id)` and
\* the return for a destroyed instance
LoopFetch(o) ==
    /\ pc = "fetch"
    /\ \E g \in {get_instance(api_key, cache, inst_id, o)} :
       \E now \in {elapsed + g.took} :
           /\ instance_ids' = g.cache.ids
           /\ instances' = g.cache.insts
           /\ requests' = g.sent
           /\ served' = <<>>
           /\ refused' = Min(o.fails, Len(g.sent))
           /\ args' = no_args
           /\ inst' = g.inst
           /\ nfetch' = nfetch + 1
           /\ elapsed' = now
           /\ listed' = (g.exc = None /\ lists(o.body, inst_id))
           /\ plain' = (/\ plain
                        /\ g.exc = None
                        /\ lists(o.body, inst_id)
                        /\ _check_status(g.cache.insts[self], target_status) = "False")
           /\ IF g.exc # None
              THEN pc' = "done" /\ result' = Raises(g.exc, NoMsg)
              ELSE IF destroyed(g.inst, now)
              THEN pc' = "done" /\ result' = Returns("None")
              ELSE pc' = "sleep" /\ result' = result
    /\ UNCHANGED <<client_vars, call, self, target_status, check_every_s, timeout, nsleep>>

\* `time.sleep(check_every_s)`
Sleep ==
    /\ pc = "sleep"
    /\ pc' = "test"
    /\ elapsed' = elapsed + check_every_s
    /\ nsleep' = nsleep + 1
    /\ UNCHANGED <<client_vars, cache_vars, requests, served, refused, args, result, call, self, target_status,
                   check_every_s, timeout, inst, nfetch, listed, plain>>

\* the wait has returned or raised: the caller goes on
Return ==
    /\ pc = "done"
    /\ pc' = "idle"
    /\ WaitReset
    /\ UNCHANGED <<client_vars, cache_vars, requests, served, refused, args, result, call>>

Next ==
    \/ \E o \in UntimedOutcomes : GetInstances(o)
    \/ \E id \in Ids, o \in UntimedOutcomes : GetInstance(id, o)
    \/ \E name \in {"start", "stop", "destroy", "change_bid"}, i \in 1..Len(instances),
          status \in HttpStatuses : Lifecycle(name, i, status)
    \/ \E w \in Waits, i \in 1..Len(instances), a \in WaitArgs :
          WaitCall(w, i, a[1], a[2])
    \/ \E o \in Outcomes : InitialFetch(o)
    \/ LoopTest
    \/ \E o \in Outcomes : LoopFetch(o)
    \/ Sleep
    \/ Return

Spec == Init /\ [][Next]_vars

\* ---------------------------------------------- construction and login
LoginBodies == [api_key : Keys \cup {Absent}, username : {"john_doe", Absent}]

\* The outcomes of get_instances followed here: answered at once or refused
\* throughout, every instance listed running.
AuthOutcomes ==
    {o \in UntimedOutcomes :
        /\ o.fails \in {0, retries + 1}
        /\ \A k \in 1..Len(o.body) : o.body[k].actual_status = "running"
                                      /\ o.body[k].status_msg = NoMsg}

\* a new client on a file system that holds a key file or none
AuthInit ==
    /\ key_file \in {NoFile, "k1"}
    /\ environ \in Keys \cup {None}
    /\ \E akf \in KeyFileArgs :
          /\ api_key = init_api_key(environ, init_api_key_file(akf), key_file)
          /\ api_key_file = init_api_key_file(akf)
    /\ username = None
    /\ login_resp = no_resp
    /\ instance_ids = <<>>
    /\ instances = <<>>
    /\ requests = <<>>
    /\ served = <<>>
    /\ refused = 0
    /\ args = no_args
    /\ result = no_result
    /\ call = "__init__"
    /\ pc = "idle"
    /\ self = 0
    /\ target_status = target_of("wait_until_destroyed")
    /\ check_every_s = 0
    /\ timeout = 0
    /\ inst = 0
    /\ elapsed = 0
    /\ nfetch = 0
    /\ nsleep = 0
    /\ listed = FALSE
    /\ plain = TRUE

AuthNext ==
    \/ \E akf \in KeyFileArgs : NewClient(akf)
    \/ \E env_key \in Keys \cup {None} : SetEnv(env_key)
    \/ \E pw \in {"arg", "env", "prompt"}, ok \in BOOLEAN, r \in LoginBodies,
          writable \in BOOLEAN : Authenticate(pw, ok, r, writable)
    \/ \E o \in AuthOutcomes : GetInstances(o)
    \/ \E status \in {200, 500} : SearchOffers(default_search_args, status)
    \/ \E status \in {200, 500} : CreateInstance(1, status)

AuthSpec == AuthInit /\ [][AuthNext]_vars

\* ------------------------------------------------------- the instance cache
\* Elements of resp["instances"] that hold or lack the key label
LabelledJson ==
    [id : Ids, actual_status : {"running", "stopped"}, status_msg : {NoMsg},
     label : {Absent, "a", "b"}]

\* resp["instances"] in either order, each instance listed at most once
LabelledResponses ==
    {<<>>} \cup {<<a>> : a \in LabelledJson}
           \cup {p \in LabelledJson \X LabelledJson : p[1].id # p[2].id}

\* answered at once or refused throughout
CacheOutcomes ==
    {o \in [fails : {0, retries + 1}, body : LabelledResponses, took : {0}] :
        o.fails > retries => o.body = <<>>}

CacheNext ==
    \/ \E o \in CacheOutcomes : GetInstances(o)
    \/ \E id \in Ids, o \in CacheOutcomes : Len(o.body) <= 1 /\ GetInstance(id, o)

CacheSpec == Init /\ [][CacheNext]_vars

\* resp["instances"] of at most two elements, which may be of the same instance
RepeatedResponses ==
    {<<>>} \cup {<<a>> : a \in LabelledJson} \cup (LabelledJson \X LabelledJson)

MergeOutcomes ==
    {o \in [fails : {0, retries + 1}, body : RepeatedResponses, took : {0}] :
        o.fails > retries => o.body = <<>>}

\* any sequence of get_instances calls
MergeNext == \E o \in MergeOutcomes : GetInstances(o)

MergeSpec == Init /\ [][MergeNext]_vars

\* ------------------------------------------------------------ searches
SortPieces == {"dph", "score", "-", ",", " "}
QueryPieces == {"verified", "price", "=", "!", "<", ">", "5", "false", " "}

\* The searches followed: every sort string without expression, and every
\* expression under the default sort string.
SearchArgs ==
    {[sort_order |-> str, query |-> NoQuery, instance_type |-> "on-demand",
      no_default |-> n, disable_bundling |-> b] :
        str \in Strings(SortPieces, MaxSortLen), n \in {Omitted, "True", "False"},
        b \in {"True", "False"}}
    \cup
    {[sort_order |-> default_sort_order, query |-> q, instance_type |-> "on-demand",
      no_default |-> n, disable_bundling |-> "False"] :
        q \in Strings(QueryPieces, MaxQueryLen), n \in {Omitted, "True", "False"}}

\* one search on a new client
SearchNext ==
    \E a \in SearchArgs, status \in {200, 500} : call = "__init__" /\ SearchOffers(a, status)

SearchSpec == Init /\ [][SearchNext]_vars

LiveWaitStep ==
    \/ \E o \in LiveOutcomes : InitialFetch(o)
    \/ LoopTest
    \/ \E o \in LiveOutcomes : LoopFetch(o)
    \/ Sleep

LiveNext ==
    \/ \E o \in LiveOutcomes : o.took = 0 /\ GetInstances(o)
    \/ \E w \in Waits, i \in 1..Len(instances), a \in WaitArgs :
          WaitCall(w, i, a[1], a[2])
    \/ \E o \in LiveOutcomes : InitialFetch(o)
    \/ LoopTest
    \/ \E o \in LiveOutcomes : LoopFetch(o)
    \/ Sleep
    \/ Return

\* The single thread of the caller keeps running and every HTTP request is
\* answered: a wait in progress takes its next step, and a finished wait returns.
FairSpec == Init /\ [][LiveNext]_vars /\ WF_vars(LiveWaitStep) /\ WF_vars(Return)

\* ------------------------------------------------------------------ claims

\* The target is met by a status: it equals the target, or a member of it,
\* once both are lower-cased.
met(status, target) ==
    /\ status # None
    /\ IF target.type = "str" THEN lower(status) = lower(target.str)
       ELSE \E k \in 1..Len(target.list) : lower(status) = lower(target.list[k])

\* the known failure prefix begins the message
is_failure(msg) == msg # NoMsg /\ Head(msg) = "Unhandled setup error"

\* _wait_until has returned inst, a snapshot
returned_snapshot == pc = "done" /\ result.kind = "return" /\ result.what = "inst"

raised(e) == pc = "done" /\ result.kind = "raise" /\ result.what = e

\* C1: whenever a wait returns a snapshot, the status of the snapshot fetched
\* last equals the target (a string) or one member of it (a list) ignoring case;
\* so a wait on the empty list never returns a snapshot.
C1_SnapshotMeetsTarget ==
    returned_snapshot =>
        /\ inst # 0
        /\ met(instances[inst].status, target_status)
        /\ ~(target_status.type = "list" /\ target_status.list = <<>>)

C1_Witness ==
    /\ returned_snapshot
    /\ call = "wait_until_stopped"
    /\ instances[inst].status = "EXITED"
    /\ nsleep > 0

\* the first evaluation of the loop condition, on the snapshot of the first fetch
first_test == pc = "test" /\ nfetch = 1 /\ nsleep = 0

\* C2 as stated: a wait whose target is met by the status of the first fetch
\* returns that snapshot at once, without sleeping, for any interval and any
\* timeout > 0.
C2_Original ==
    [][first_test /\ timeout > 0 /\ met(instances[self].status, target_status)
         => /\ pc' = "done"
            /\ result' = Returns("inst")
            /\ nsleep' = 0 /\ nfetch' = 1]_vars

\* C2 amended: the same, for a snapshot whose status message does not begin
\* with the failure prefix.
C2_MetAtOnceReturns ==
    [][(/\ first_test
        /\ timeout > 0
        /\ met(instances[self].status, target_status)
        /\ ~is_failure(instances[self].status_msg))
         => /\ pc' = "done"
            /\ result' = Returns("inst")
            /\ inst' = self
            /\ nsleep' = 0 /\ nfetch' = 1]_vars

C2_Witness ==
    /\ returned_snapshot
    /\ call = "wait_until_running"
    /\ instances[inst].status = "Running"
    /\ check_every_s = 2 /\ timeout = ShortTimeout
    /\ nsleep = 0 /\ nfetch = 1

\* C3: for any target and any timeout, a first snapshot whose status message
\* begins with "Unhandled setup error" makes the wait raise UnhandledSetupError
\* with that message at the first check: no sleep, no further fetch.
C3_FailureMessageRaisesAtOnce ==
    [][first_test /\ is_failure(instances[self].status_msg)
         => /\ pc' = "done"
            /\ result' = Raises("UnhandledSetupError", instances[self].status_msg)
            /\ nsleep' = 0 /\ nfetch' = 1]_vars

C3_Witness ==
    /\ raised("UnhandledSetupError")
    /\ result.msg = <<"Unhandled setup error", ": disk full">>
    /\ call = "wait_until_destroyed"
    /\ timeout = 0
    /\ nsleep = 0 /\ nfetch = 1

\* C4: when every fetch lists the instance with a status off target and no
\* failure message, the wait ends, and it ends with TimeoutError.
C4_UnmetTimesOut ==
    (pc = "fetch0") ~> (pc = "done" /\ (plain => result = Raises("TimeoutError", NoMsg)))

C4_Witness ==
    /\ raised("TimeoutError")
    /\ plain
    /\ nsleep = MaxPolls
    /\ timeout = ShortTimeout

\* a step of the loop that is a fetch answered without the instance
absent_fetch ==
    /\ pc = "fetch"
    /\ nfetch' = nfetch + 1
    /\ ~listed'
    /\ ~(pc' = "done" /\ result' \in {Raises("HTTPError", NoMsg), Raises("NameError", NoMsg)})

\* C5 as stated: on wait_until_destroyed, a fetch answered without the instance
\* past the grace period and before the timeout ends the wait with an empty
\* result.
C5_AbsentPastGraceReturnsEmpty ==
    [][(/\ absent_fetch
        /\ call = "wait_until_destroyed"
        /\ elapsed' > destroy_return_delay
        /\ elapsed' < timeout)
         => pc' = "done" /\ result' = Returns("None")]_vars

\* C6 as stated: get_instance never raises for an instance that does not exist
\* (it returns None).
C6_GetInstanceNeverRaisesForMissing ==
    call = "get_instance" => ~(result.kind = "raise" /\ result.what = "ValueError")

\* C7: within the grace period a fetch of the loop answered without the
\* instance does not end the wait: the wait sleeps for the interval and, in
\* time, fetches again; no empty result is returned within the grace period.
C7_AbsentWithinGraceContinues ==
    [][/\ (absent_fetch /\ elapsed' <= destroy_return_delay
             => pc' = "sleep" /\ result' = result)
       /\ (pc = "sleep" /\ ~listed
             => pc' = "test" /\ elapsed' = elapsed + check_every_s /\ nsleep' = nsleep + 1)
       /\ (pc = "test" /\ nfetch > 1 /\ ~listed /\ elapsed < timeout
             => pc' = "fetch")
       /\ (pc' = "done" /\ result' = Returns("None")
             => elapsed' > destroy_return_delay)]_vars

C7_Witness ==
    /\ pc = "fetch"
    /\ nfetch >= 2
    /\ ~listed
    /\ elapsed <= destroy_return_delay
    /\ call = "wait_until_destroyed"

\* ceil(a / b)
Ceil(a, b) == (a + b - 1) \div b

\* C8: when the target is never met and the fetches take no time, TimeoutError
\* is raised after exactly ceil(timeout / interval) iterations (3 for timeout 5,
\* interval 2), at the first loop test where the elapsed time has reached the
\* timeout.
C8_TimeoutAfterCeilIterations ==
    raised("TimeoutError") /\ elapsed = nsleep * check_every_s
        => /\ nsleep = Ceil(timeout, check_every_s)
           /\ nfetch = nsleep + 1
           /\ elapsed >= timeout
           /\ (nsleep > 0 => elapsed - check_every_s < timeout)

C8_Witness ==
    /\ raised("TimeoutError")
    /\ timeout = ShortTimeout /\ check_every_s = 2
    /\ elapsed = nsleep * check_every_s
    /\ nsleep = 3

\* C9: during a wait the only requests sent are GET /instances.
C9_WaitOnlyFetches ==
    pc # "idle" =>
        \A k \in 1..Len(requests) :
            requests[k].method = "GET" /\ requests[k].path = "/instances"

C9_Witness ==
    /\ pc = "sleep"
    /\ nfetch >= 2
    /\ Len(requests) = retries + 1

\* C10: after authenticate succeeds on a client that held no api_key,
\* client.api_key is the api_key of the login response, the key file (when
\* api_key_file is set) holds client.api_key, and the call returned the client.
C10_LoginStoresKey ==
    (/\ call = "authenticate"
     /\ result.kind = "return"
     /\ requests = <<login_request(None)>>
     /\ login_resp.api_key # Absent)
        => /\ result.what = "self"
           /\ api_key = login_resp.api_key
           /\ (api_key_file # None => key_file = api_key)

C10_Witness ==
    /\ call = "authenticate"
    /\ result = Returns("self")
    /\ requests = <<login_request(None)>>
    /\ api_key = "k2"
    /\ api_key_file # None
    /\ key_file = "k2"

\* ------------------------------------------------- C11 .. C13: login, construction
\* a step of authenticate whose request the service answered with an HTTP error
rejected_login ==
    /\ call' = "authenticate"
    /\ requests' # <<>>
    /\ login_resp'.status_code = 401

\* C11: a login the service rejects raises Unauthorized and leaves the client
\* as it was: api_key, the attributes a response sets, and the key file.
C11_RejectedLoginLeavesClient ==
    [][rejected_login
         => /\ result' = Raises("Unauthorized", NoMsg)
            /\ UNCHANGED <<api_key, username, api_key_file, key_file>>]_vars

C11_Witness ==
    /\ call = "authenticate"
    /\ result = Raises("Unauthorized", NoMsg)
    /\ login_resp = Response(401, [api_key |-> "k2", username |-> "john_doe"])
    /\ api_key = None
    /\ username = None
    /\ api_key_file # None
    /\ key_file = NoFile

\* a step of authenticate on a client that holds an api_key, up to its request
keyed_login ==
    /\ call' = "authenticate"
    /\ truthy(api_key)

\* C12 as stated: authenticate on a client that holds an api_key sends the key
\* and no username/password, leaves api_key as it was and does not write the
\* key file.
C12_Original ==
    [][keyed_login
         => /\ requests' = <<[method |-> "GET", path |-> "/users/current/", id |-> 0,
                              body |-> None, api_key |-> api_key]>>
            /\ api_key' = api_key
            /\ key_file' = key_file]_vars

\* C12: authenticate on a client that holds an api_key sends the key and no
\* username/password and does not write the key file; api_key stays what it
\* was when the response holds no api_key or the same key.
C12_KeyedLoginKeepsKey ==
    [][keyed_login
         => /\ requests' = <<[method |-> "GET", path |-> "/users/current/", id |-> 0,
                              body |-> None, api_key |-> api_key]>>
            /\ (login_resp'.api_key \in {Absent, api_key} => api_key' = api_key)
            /\ key_file' = key_file]_vars

C12_Witness ==
    /\ call = "authenticate"
    /\ result = Returns("self")
    /\ requests = <<login_request("k1")>>
    /\ login_resp = Response(200, [api_key |-> "k1", username |-> "john_doe"])
    /\ api_key = "k1"
    /\ username = "john_doe"
    /\ key_file = NoFile

\* C13: a new client's api_key is VAST_API_KEY when the environment sets it,
\* else the contents of the key file when api_key_file is set and the file
\* exists, else None.
C13_ConstructedKey ==
    [][call' = "__init__"
         => api_key' = IF environ' # None THEN environ'
                       ELSE IF api_key_file' # None /\ key_file' # NoFile THEN key_file'
                       ELSE None]_vars

\* a client constructed, VAST_API_KEY unset, on the key file an authenticate wrote
C13_Witness ==
    /\ call = "__init__"
    /\ environ = None
    /\ api_key_file # None
    /\ key_file = "k2"
    /\ api_key = "k2"

\* ------------------------------------------------------ C14: the merged cache
\* the positions of the cache that hold an Instance with this id
cached(id) == {i \in 1..Len(instances) : instances[i].id = id}

\* the Instance at position i shows what the element e of a response says
mirrors(i, e) ==
    /\ instance_ids[i] = e.id
    /\ \A k \in 1..Len(instances[i].fields) :
          instances[i][instances[i].fields[k]] = e[instances[i].fields[k]]
    /\ instances[i].status = e.actual_status

\* C14: after a successful get_instances every instance of the response has
\* exactly one cached Instance with its id, whose fields hold the values of the
\* response and whose status is the response's actual_status.
C14_CacheMirrorsResponse ==
    (call = "get_instances" /\ result.kind = "return")
        => \A k \in 1..Len(served) :
              /\ Cardinality(cached(served[k].id)) = 1
              /\ \A i \in cached(served[k].id) : mirrors(i, served[k])

\* a later call merged new values into two existing entries
C14_Witness ==
    /\ call = "get_instances"
    /\ result.kind = "return"
    /\ Len(served) = 2
    /\ instance_ids = <<1, 2>>
    /\ served[1].id = 2
    /\ served[1].actual_status = "stopped"
    /\ served[2].label = "b"
    /\ instances[1].fields = <<"id", "actual_status", "status_msg", "label">>
    /\ instances[1].label = "b"
    /\ instances[2].status = "stopped"

\* ------------------------------------------------- C15: lifecycle requests
\* C15: start, stop and destroy each send exactly one request, addressed to
\* the id of the Instance they are called on: PUT /instances/<id>/ with
\* {"state": "running"}, PUT /instances/<id>/ with {"state": "stopped"},
\* DELETE /instances/<id>/.
C15_OneRequestPerOperation ==
    /\ call = "start"
          => requests = <<[method |-> "PUT", path |-> "/instances/<id>/",
                           id |-> instances[self].id, body |-> "{state: running}"]>>
    /\ call = "stop"
          => requests = <<[method |-> "PUT", path |-> "/instances/<id>/",
                           id |-> instances[self].id, body |-> "{state: stopped}"]>>
    /\ call = "destroy"
          => /\ Len(requests) = 1
             /\ requests[1].method = "DELETE"
             /\ requests[1].path = "/instances/<id>/"
             /\ requests[1].id = instances[self].id

\* stop on the second Instance of the cache, refused by the service
C15_Witness ==
    /\ call = "stop"
    /\ self = 2
    /\ instance_ids = <<2, 1>>
    /\ requests[1].id = 1
    /\ result = Raises("InstanceError", NoMsg)

\* ------------------------------------------------- C16: calls without api_key
\* C16 as stated: get_instances, create_instance and search_offers on a client
\* whose api_key is unset raise ApiKeyNotSet, send no request and leave the
\* instance cache as it was.
C16_UnsetKeyRaisesApiKeyNotSet ==
    [][(call' \in {"get_instances", "create_instance", "search_offers"} /\ api_key = None)
         => /\ result' = Raises("ApiKeyNotSet", NoMsg)
            /\ requests' = <<>>
            /\ UNCHANGED cache_vars]_vars

\* ------------------------------------------------- C17 .. C20: search_offers
\* search_offers has sent its request
searched == call = "search_offers" /\ requests # <<>>

\* the order list as C17 describes it: one pair per non-empty name, "desc"
\* exactly for a name that ends with "-", the suffix stripped before the alias
\* lookup
RECURSIVE claimed_order(_)
claimed_order(names) ==
    IF names = <<>> THEN <<>>
    ELSE LET name == strip(Head(names), Whitespace)
             suffixed == name # <<>> /\ name[Len(name)] = "-"
         IN  IF name = <<>> THEN claimed_order(Tail(names))
             ELSE <<(<<field_alias(rstrip(name, {"-"})),
                       IF suffixed THEN "desc" ELSE "asc">>)>> \o claimed_order(Tail(names))

\* C17 as stated: the order list of the request is the list of [field,
\* direction] pairs of the names of the sort string, in input order, "desc"
\* exactly for the names that carry the `-` suffix, the suffix stripped before
\* the alias lookup.
C17_OrderFromSortString ==
    searched => requests[1].q.order = claimed_order(split(args.sort_order, ","))

\* C18 as stated: a search_offers call that passes no opt-out argument sends a
\* query that holds the default clauses.
C18_DefaultsUnlessOptedOut ==
    (searched /\ args.no_default = Omitted /\ args.query = NoQuery)
        => \A f \in DOMAIN default_query_args :
              /\ f \in DOMAIN requests[1].q.filters
              /\ requests[1].q.filters[f] = default_query_args[f]

\* the non-empty tokens of an expression
RECURSIVE non_empty(_)
non_empty(tokens) ==
    IF tokens = <<>> THEN <<>>
    ELSE IF Head(tokens) = <<>> THEN non_empty(Tail(tokens))
    ELSE <<Head(tokens)>> \o non_empty(Tail(tokens))

\* a search with an expression, begun from the default clauses or from none
searched_for(no_default) ==
    /\ searched
    /\ args.query # NoQuery
    /\ args.no_default = no_default

\* the clause the request carries for a field, none if it carries none
no_clause == Clause("none", Str(<<>>))
sent_clause(f) ==
    IF f \in DOMAIN requests[1].q.filters THEN requests[1].q.filters[f] ELSE no_clause

\* the position of the last token of the expression whose field is f, 0 if none
mention(tokens, f) ==
    IF \E k \in 1..Len(tokens) : parse_token(tokens[k]).field = f
    THEN CHOOSE k \in 1..Len(tokens) :
            /\ parse_token(tokens[k]).field = f
            /\ \A j \in (k + 1)..Len(tokens) : parse_token(tokens[j]).field # f
    ELSE 0

\* C19: with the default clauses in place, a clause of the expression
\* overwrites the default clause of its field and every default field the
\* expression does not mention keeps its default clause.
C19_ExpressionOverridesDefault ==
    searched_for("False")
        => LET tokens == non_empty(split(args.query, " "))
           IN  \A f \in DOMAIN default_query_args :
                  sent_clause(f) = IF mention(tokens, f) = 0 THEN default_query_args[f]
                                   ELSE parse_token(tokens[mention(tokens, f)]).clause

\* defaults plus "verified=false": verified is eq false, the others keep theirs
C19_Witness ==
    /\ searched_for("False")
    /\ args.query = <<"verified", "=", "false">>
    /\ DOMAIN requests[1].q.filters = DOMAIN default_query_args
    /\ sent_clause(<<"verified">>) = Clause("eq", Bool("false"))
    /\ sent_clause(<<"rentable">>) = Clause("eq", Bool("true"))
    /\ sent_clause(<<"external">>) = Clause("eq", Bool("false"))

\* the first position of a token where an operator begins, 0 if there is none
first_op(token) ==
    LET begins(i) == \/ token[i] \in {"=", "<", ">"}
                     \/ (token[i] = "!" /\ i < Len(token) /\ token[i + 1] = "=")
    IN  IF \E i \in 1..Len(token) : begins(i)
        THEN CHOOSE i \in 1..Len(token) : begins(i) /\ \A j \in 1..(i - 1) : ~begins(j)
        ELSE 0

\* the token uses `!=`, `<=` or `>=`
long_op(token) ==
    /\ first_op(token) # 0
    /\ first_op(token) < Len(token)
    /\ token[first_op(token) + 1] = "="
    /\ token[first_op(token)] \in {"!", "<", ">"}

\* the field a token names
field_of(token) == field_alias(SubSeq(token, 1, first_op(token) - 1))

\* C20: a token that uses `!=`, `<=` or `>=` yields a clause with operator
\* neq, lte or gte whose value is what follows the two characters of the
\* operator: never eq, lt or gt with a value that begins with `=`.
C20_LongestOperatorMatch ==
    searched_for("True")
        => LET tokens == non_empty(split(args.query, " "))
           IN  \A k \in 1..Len(tokens) :
                  (/\ long_op(tokens[k])
                   /\ \A j \in (k + 1)..Len(tokens) :
                         first_op(tokens[j]) = 0 \/ field_of(tokens[j]) # field_of(tokens[k]))
                    => LET i == first_op(tokens[k])
                           c == sent_clause(field_of(tokens[k]))
                       IN  /\ c.op = CASE tokens[k][i] = "!" -> "neq"
                                        [] tokens[k][i] = "<" -> "lte"
                                        [] tokens[k][i] = ">" -> "gte"
                           /\ c.value = parse_value(SubSeq(tokens[k], i + 2, Len(tokens[k])))

\* price!=5 was sent as price: neq 5
C20_Witness ==
    /\ searched_for("True")
    /\ args.query = <<"price", "!", "=", "5">>
    /\ DOMAIN requests[1].q.filters = {<<"price">>}
    /\ sent_clause(<<"price">>) = Clause("neq", Num(<<"5">>))

\* a step in which get_instances runs: called on the client, under get_instance
\* or under a wait
fetch_step ==
    \/ pc \in {"fetch0", "fetch"}
    \/ pc = "idle" /\ call' \in {"get_instances", "get_instance"}

\* the service refused every request of the fetch
fetch_refused == refused' = Len(requests')

\* C21: a fetch makes at most retries + 1 requests, retry_delay_s seconds apart;
\* when the service refuses them all, get_instances, get_instance and the wait
\* end with HTTPError (the wait at once, whatever the target and the timeout,
\* and the cache is left alone), and HTTPError is raised in no other case; the
\* caller of the wait gets that same error.
C21_HttpErrorRetriedThenPropagates ==
    [][/\ (fetch_step =>
             /\ Len(requests') <= retries + 1
             /\ (fetch_refused =>
                   /\ Len(requests') = retries + 1
                   /\ result' = Raises("HTTPError", NoMsg)
                   /\ (pc # "idle" => pc' = "done")
                   /\ instance_ids' = instance_ids /\ instances' = instances)
             /\ (result' = Raises("HTTPError", NoMsg) => fetch_refused)
             /\ (pc = "fetch" =>
                   elapsed' >= elapsed + Min(refused', retries) * retry_delay_s))
       /\ (raised("HTTPError") => result' = result /\ pc' = "idle")]_vars

C21_Witness ==
    /\ raised("HTTPError")
    /\ call = "wait_until_running"
    /\ nfetch >= 2
    /\ refused = retries + 1
    /\ Len(requests) = retries + 1

\* ids and insts go together: same length, ids[i] is the id of insts[i], no id twice
consistent(ids, insts) ==
    /\ Len(ids) = Len(insts)
    /\ \A i \in 1..Len(ids) : insts[i].id = ids[i]
    /\ \A i, j \in 1..Len(ids) : ids[i] = ids[j] => i = j

\* C22: across every get_instances call, returned or raised, instance_ids and
\* instances stay consistent, every entry keeps its position (entries are only
\* appended), and after a call that returns an entry the response does not
\* list is what it was before the call.
C22_CacheAppendReplaceOnly ==
    [][/\ consistent(instance_ids, instances)
       /\ consistent(instance_ids', instances')
       /\ Len(instance_ids') >= Len(instance_ids)
       /\ \A i \in 1..Len(instance_ids) : instance_ids'[i] = instance_ids[i]
       /\ (result'.kind = "return" =>
             \A i \in 1..Len(instances) :
                 ~lists(served', instance_ids[i]) => instances'[i] = instances[i])]_vars

C22_Witness ==
    /\ call = "get_instances"
    /\ result.kind = "return"
    /\ Len(served) = 2
    /\ served[1].id = 2 /\ served[2].id = 2
    /\ served[1].actual_status = "running" /\ served[2].actual_status = "stopped"
    /\ Len(instances) = 2
    /\ instances[1].id = 1 /\ instances[1].status = "stopped"
    /\ instances[2].status = "stopped"

\* the snapshot of the waiting Instance meets the target and carries a failure
\* message
met_and_failed ==
    /\ met(instances[self].status, target_status)
    /\ is_failure(instances[self].status_msg)

\* C23: a snapshot that meets the target and whose message begins with
\* "Unhandled setup error" makes the next status check raise
\* UnhandledSetupError with that message (after a fetch of the loop the check
\* follows the sleep, with no fetch between); no wait returns a snapshot that
\* carries such a message.
C23_FailureMessageBeforeTarget ==
    [][/\ (pc = "test" /\ met_and_failed
             => /\ pc' = "done"
                /\ result' = Raises("UnhandledSetupError", instances[self].status_msg))
       /\ (pc = "sleep" /\ met_and_failed
             => pc' = "test" /\ instances' = instances /\ nfetch' = nfetch)
       /\ (pc' = "done" /\ result'.kind = "return" /\ result'.what = "inst"
             => ~is_failure(instances'[inst'].status_msg))]_vars

C23_Witness ==
    /\ raised("UnhandledSetupError")
    /\ call = "wait_until_running"
    /\ met_and_failed
    /\ instances[self].status = "running"
    /\ nsleep >= 1
    /\ elapsed < timeout

\* the loop condition is evaluated with the time used up, on a snapshot whose
\* status meets the target
met_at_timeout ==
    /\ pc = "test"
    /\ elapsed >= timeout
    /\ met(instances[self].status, target_status)

\* TimeoutError is raised only on a snapshot that does not meet the target
timeout_only_unmet ==
    pc' = "done" /\ result' = Raises("TimeoutError", NoMsg)
        => ~met(instances'[self'].status, target_status')

\* C24 as stated: a snapshot that meets the target when the elapsed time has
\* reached the timeout is returned, not TimeoutError; TimeoutError is raised
\* only when the last snapshot does not meet the target.
C24_Original ==
    [][/\ (met_at_timeout
             => pc' = "done" /\ result' = Returns("inst") /\ inst = self)
       /\ timeout_only_unmet]_vars

\* C24 amended: the same, for a snapshot whose status message does not begin
\* with the failure prefix.
C24_MatchWinsOverTimeout ==
    [][/\ (met_at_timeout /\ ~is_failure(instances[self].status_msg)
             => /\ pc' = "done" /\ result' = Returns("inst")
                /\ inst = self /\ instances' = instances)
       /\ timeout_only_unmet]_vars

C24_Witness ==
    /\ returned_snapshot
    /\ call = "wait_until_stopped"
    /\ timeout = ShortTimeout /\ check_every_s = LongInterval
    /\ elapsed >= timeout
    /\ nsleep = 1
    /\ instances[inst].status = "EXITED"

\* C25 as stated: a status check of a wait comes after a fetch of that wait,
\* and a wait returns a snapshot only when its latest fetch listed the
\* instance, that is on a status the service reported to this wait and not on
\* one the cache held before.
C25_ChecksOnFetchedSnapshot ==
    /\ (pc = "test" => nfetch >= 1)
    /\ (returned_snapshot => listed)

====
